---- MODULE Spec2Model ----
(***************************************************************************)
(* Model of the Jewish-library search server:                              *)
(*   src/src/jewish_library/tantivy_search_agent.py  (TantivySearchAgent)  *)
(*   src/src/jewish_library/server.py                (handle_call_tool)    *)
(*                                                                         *)
(* Python strings are sequences of one-character strings.  An optional     *)
(* value (a field that may be None) is a sequence of length at most one:   *)
(* None is <<>> and a present value v is <<v>>.                            *)
(***************************************************************************)
EXTENDS Integers, Sequences, FiniteSets, TLC

VARIABLES
    index,   \* the shared index handle (search_agent.index), opened once
    inv,     \* per task: one invocation of search or of handle_call_tool
    hl       \* the highlight extractor applied to one (query, text) pair

vars == <<index, inv, hl>>

----------------------------------------------------------------------------
(* Bounds of the model.                                                    *)

\* Longest generated raw query, in tokens of QueryTokens.
MaxQueryTokens == 3
\* Paddings tried around a matched word: the context width +/- MaxSlack.
MaxSlack == 1

(* Program constants.                                                      *)

\* match.start() - 50, match.end() + 50
ContextChars == 50
\* text[:100]
FallbackChars == 100

----------------------------------------------------------------------------
(* Strings.                                                                *)

Max(a, b) == IF a > b THEN a ELSE b
Min(a, b) == IF a < b THEN a ELSE b

None == <<>>
Some(v) == <<v>>

\* Python's s[a:b] for 0 <= a, b (0-based, half-open, clamped to the string).
Slice(s, a, b) == SubSeq(s, Min(a, Len(s)) + 1, Min(b, Len(s)))

RECURSIVE Concat(_)
\* "".join(parts)
Concat(parts) ==
    IF parts = <<>> THEN <<>> ELSE Head(parts) \o Concat(Tail(parts))

Ellipsis == <<".", ".", ".">>

\* Characters Python's \w matches among those the model uses.
WordChars ==
    {"a", "b", "c", "d", "e", "f", "g", "h", "i", "j", "k", "l", "m",
     "n", "o", "p", "q", "r", "s", "t", "u", "v", "w", "x", "y", "z",
     "A", "B", "C", "D", "E", "F", "G", "H", "I", "J", "K", "L", "M",
     "N", "O", "P", "Q", "R", "S", "T", "U", "V", "W", "X", "Y", "Z",
     "0", "1", "2", "3", "4", "5", "6", "7", "8", "9", "_"}

\* Characters str.split() and str.strip() treat as whitespace.
Whitespace == {" ", "\n", "\t"}

\* The case folding of re.IGNORECASE on the model's letters.
Lower(c) ==
    CASE c = "A" -> "a"
      [] c = "B" -> "b"
      [] c = "C" -> "c"
      [] c = "D" -> "d"
      [] c = "E" -> "e"
      [] c = "F" -> "f"
      [] c = "G" -> "g"
      [] c = "H" -> "h"
      [] c = "I" -> "i"
      [] c = "J" -> "j"
      [] c = "K" -> "k"
      [] c = "L" -> "l"
      [] c = "M" -> "m"
      [] c = "N" -> "n"
      [] c = "O" -> "o"
      [] c = "P" -> "p"
      [] c = "Q" -> "q"
      [] c = "R" -> "r"
      [] c = "S" -> "s"
      [] c = "T" -> "t"
      [] c = "U" -> "u"
      [] c = "V" -> "v"
      [] c = "W" -> "w"
      [] c = "X" -> "x"
      [] c = "Y" -> "y"
      [] c = "Z" -> "z"
      [] OTHER -> c

----------------------------------------------------------------------------
(* Highlight extraction: tantivy_search_agent.py, lines 115-145.           *)

\* The character class [:"()[\]{}^~*\\] of the substitution pattern.
SyntaxChars == {":", "\"", "(", ")", "[", "]", "{", "}", "^", "~", "*", "\\"}

\* The character class [-+] of the substitution pattern.
SignChars == {"-", "+"}

\* The alternatives of (AND|OR|NOT|TO|IN), in the order the regex tries them.
Keywords ==
    << <<"A", "N", "D">>, <<"O", "R">>, <<"N", "O", "T">>, <<"T", "O">>,
       <<"I", "N">> >>

\* s[i .. i+Len(w)-1] = w, compared exactly (the substitution is case
\* sensitive).
StartsWithAt(s, i, w) ==
    /\ i + Len(w) - 1 <= Len(s)
    /\ SubSeq(s, i, i + Len(w) - 1) = w

\* \b before the 1-based position i of s (i = Len(s) + 1: at the end).
WordBoundaryAt(s, i) ==
    LET before == i > 1 /\ s[i - 1] \in WordChars
        after == i <= Len(s) /\ s[i] \in WordChars
    IN  before # after

\* Whether keyword number k matches \b(keyword)\b at position i.
KeywordMatchesAt(s, i, k) ==
    /\ StartsWithAt(s, i, Keywords[k])
    /\ WordBoundaryAt(s, i)
    /\ WordBoundaryAt(s, i + Len(Keywords[k]))

\* The length of the keyword \b(AND|OR|NOT|TO|IN)\b matches at i, 0 if none.
KeywordAt(s, i) ==
    LET ks == {k \in DOMAIN Keywords : KeywordMatchesAt(s, i, k)}
    IN  IF ks = {} THEN 0
        ELSE Len(Keywords[CHOOSE k \in ks : \A j \in ks : k <= j])

RECURSIVE SubSyntax(_, _)
\* re.sub(pattern, ' ', query) from position i on: every match of the
\* pattern, scanning left to right, becomes one space.
SubSyntax(s, i) ==
    IF i > Len(s) THEN <<>>
    ELSE IF s[i] \in SyntaxChars THEN <<" ">> \o SubSyntax(s, i + 1)
    ELSE IF KeywordAt(s, i) > 0
         THEN <<" ">> \o SubSyntax(s, i + KeywordAt(s, i))
    ELSE IF s[i] \in SignChars THEN <<" ">> \o SubSyntax(s, i + 1)
    ELSE <<s[i]>> \o SubSyntax(s, i + 1)

RECURSIVE Strip(_)
\* str.strip(): leading and trailing whitespace removed.
Strip(s) ==
    IF s = <<>> THEN s
    ELSE IF Head(s) \in Whitespace THEN Strip(Tail(s))
    ELSE IF s[Len(s)] \in Whitespace THEN Strip(SubSeq(s, 1, Len(s) - 1))
    ELSE s

RECURSIVE SplitFrom(_, _, _)
\* str.split(): the maximal runs of non-whitespace characters, in order.
\* cur is the run being read at position i.
SplitFrom(s, i, cur) ==
    IF i > Len(s) THEN (IF cur = <<>> THEN <<>> ELSE <<cur>>)
    ELSE IF s[i] \in Whitespace
         THEN (IF cur = <<>> THEN <<>> ELSE <<cur>>) \o SplitFrom(s, i + 1, <<>>)
    ELSE SplitFrom(s, i + 1, Append(cur, s[i]))

Split(s) == SplitFrom(s, 1, <<>>)

\* [term for term in ... .split() if len(term) > 0]: keeps one-character terms.
HighlightTermsKeepShort(query) ==
    LET keep(t) == Len(t) > 0
    IN  SelectSeq(Split(Strip(SubSyntax(query, 1))), keep)

\* highlight_terms: the query with its syntax stripped, split on whitespace,
\* terms of one character dropped.
HighlightTerms(query) ==
    LET keep(t) == Len(t) > 1
    IN  SelectSeq(Split(Strip(SubSyntax(query, 1))), keep)

\* re.escape(term) matched at 1-based position i of text under re.IGNORECASE.
TermMatchesAt(term, text, i) ==
    /\ i + Len(term) - 1 <= Len(text)
    /\ \A j \in 1..Len(term) : Lower(text[i + j - 1]) = Lower(term[j])

\* The length the alternation term1|term2|... matches at i: the first
\* alternative that matches wins; 0 if none does.
AlternationAt(terms, text, i) ==
    LET ts == {k \in DOMAIN terms : TermMatchesAt(terms[k], text, i)}
    IN  IF ts = {} THEN 0
        ELSE Len(terms[CHOOSE k \in ts : \A j \in ts : k <= j])

RECURSIVE FindIter(_, _, _)
\* list(re.finditer(pattern, text, re.IGNORECASE)) from position i on: the
\* non-overlapping matches, left to right, as 0-based [start, end) spans.
\* The scan moves to the first position at or after i where an alternative
\* matches, and goes on behind that match.
FindIter(terms, text, i) ==
    LET at == {p \in i..Len(text) : AlternationAt(terms, text, p) > 0}
    IN  IF at = {} THEN <<>>
        ELSE LET p == CHOOSE q \in at : \A r \in at : q <= r
                 n == AlternationAt(terms, text, p)
             IN  <<[start |-> p - 1, end |-> p - 1 + n]>>
                     \o FindIter(terms, text, p + n)

\* The window with the trailing test written end <= len(text).
HighlightAlwaysTrailing(text, m) ==
    LET start == Max(0, m.start - ContextChars)
        end == Min(Len(text), m.end + ContextChars)
        body == Slice(text, start, end)
        lead == IF start > 0 THEN Ellipsis \o body ELSE body
    IN  IF end <= Len(text) THEN lead \o Ellipsis ELSE lead

\* The highlight of one match: lines 134-140.
Highlight(text, m) ==
    LET start == Max(0, m.start - ContextChars)
        end == Min(Len(text), m.end + ContextChars)
        body == Slice(text, start, end)
        lead == IF start > 0 THEN Ellipsis \o body ELSE body
    IN  IF end < Len(text) THEN lead \o Ellipsis ELSE lead

\* text[:100] + "..." if len(text) > 100 else text: lines 143 and 145.
Fallback(text) ==
    IF Len(text) > FallbackChars
    THEN Slice(text, 0, FallbackChars) \o Ellipsis
    ELSE text

\* highlights for a document whose text is a string: lines 125-145.
Highlights(terms, matches, text) ==
    IF terms # <<>> /\ matches # <<>>
    THEN [k \in DOMAIN matches |-> Highlight(text, matches[k])]
    ELSE <<Fallback(text)>>

\* The matches computed at line 130 (none when there are no terms).
MatchesOf(terms, text) ==
    IF terms # <<>> THEN FindIter(terms, text, 1) ELSE <<>>

----------------------------------------------------------------------------
(* The highlight extractor on its own: inputs and the step applying it.    *)

\* The pieces generated raw queries are concatenated from.
QueryTokens == {<<"a">>, <<"B">>, <<" ">>, <<"A", "N", "D">>, <<"+">>}

\* Raw queries written out: the examples of the specification and one for
\* each kind of syntax the substitution strips or keeps.
ExampleQueries ==
    {<<"a", " ", "A", "N", "D", " ", "b">>,
     <<"A", "N", "D", " ", "O", "R", " ", "+">>,
     <<"t", "e", "x", "t", ":", "a", "b">>,
     <<"(", "a", "b", " ", "O", "R", " ", "b", "a", ")", " ", "N", "O", "T", " ", "b", "b">>,
     <<"\"", "a", "b", "\"", "~", "2", " ", "-", "b", "a">>,
     <<"T", "O", " ", "I", "N", " ", "a", "b", "*">>,
     <<"a", "_", "A", "N", "D", " ", "b", "1">>,
     <<"x", "A", "N", "D", " ", "+", "a", "b">>,
     <<"a", "n", "d", " ", "a", "b">>}

\* Every concatenation of at most MaxQueryTokens tokens, and the examples.
HLQueries ==
    {Concat(ts) : ts \in UNION {[1..k -> QueryTokens] : k \in 0..MaxQueryTokens}}
        \cup ExampleQueries

\* Filler that no query term matches.
Pad(n) == [i \in 1..n |-> IF i % 3 = 1 THEN "x" ELSE IF i % 3 = 2 THEN "y" ELSE "z"]

\* Lengths of filler around a word: none, and the context width +/- MaxSlack.
Paddings == {0} \cup ((ContextChars - MaxSlack)..(ContextChars + MaxSlack))

\* A word holding "ab", "bb" and "ba" in mixed case.
Word == <<"a", "b", "B", "a">>

\* Document texts: the word at every padding, filler alone around the
\* truncation length, and two words close enough for their windows to overlap.
HLTexts ==
    {Pad(a) \o Word \o Pad(b) : a \in Paddings, b \in Paddings}
        \cup {Pad(n) : n \in {0} \cup ((FallbackChars - MaxSlack)..(FallbackChars + MaxSlack))}
        \cup {Pad(ContextChars + 2) \o Word \o Pad(3) \o Word \o Pad(ContextChars + 2)}

\* hl before the extractor has run on (q, t).
HLInput(q, t) ==
    [pc |-> "input", query |-> q, text |-> t, terms |-> <<>>,
     matches |-> <<>>, highlights |-> <<>>]

\* hl in behaviours that do not exercise the extractor on its own.
HLOff == [pc |-> "off", query |-> <<>>, text |-> <<>>, terms |-> <<>>,
          matches |-> <<>>, highlights |-> <<>>]

\* Lines 117-145 applied to hl.query and hl.text.
ExtractHighlights ==
    /\ hl.pc = "input"
    /\ LET terms == HighlightTerms(hl.query)
           matches == MatchesOf(terms, hl.text)
       IN  hl' = [hl EXCEPT !.pc = "done", !.terms = terms,
                            !.matches = matches,
                            !.highlights = Highlights(terms, matches, hl.text)]
    /\ UNCHANGED <<index, inv>>

----------------------------------------------------------------------------
(* The index (the tantivy collaborator) and its documents.                 *)

\* Largest num_results a direct caller of search passes.
MaxLimit == 2
\* Concurrent invocations (asyncio tasks) in flight.
NumTasks == 2
\* num_results=1 in handle_call_tool.
ToolLimit == 1

Tasks == 1..NumTasks

\* A document with every field.
DocFull ==
    [text |-> Some(<<"a", "b", " ", "b", "a">>), reference |-> Some(<<"G", "e", "n", " ", "1">>),
     topics |-> Some(<<"t">>), filePath |-> Some(<<"d", "/", "f", ".", "t", "x", "t">>),
     segment |-> Some(3), isPdf |-> Some(FALSE), title |-> Some(<<"T">>)]

\* A document with a text and nothing else.
DocBare ==
    [text |-> Some(<<"b", "a">>), reference |-> None, topics |-> None,
     filePath |-> None, segment |-> None, isPdf |-> None, title |-> None]

\* A document without a title, named by its file.
DocNoTitle ==
    [DocFull EXCEPT !.title = None, !.text = Some(<<"a", "b">>)]

\* A document without a text field.
DocNoText == [DocFull EXCEPT !.text = None]

\* Raw queries of the invocations: a term, a signed term, an unbalanced
\* parenthesis, and a term no document holds.
QueryAb == <<"a", "b">>
QueryBa == <<"+", "b", "a">>
QueryOpen == <<"(", "a", "b">>
QueryZz == <<"z", "z">>
MainQueries == {QueryAb, QueryBa, QueryOpen, QueryZz}

\* An index: its documents by address, and for each query the addresses of
\* the matching documents, best first (what tantivy's ranking decides).
IndexA ==
    [docs |-> <<DocFull, DocBare, DocNoTitle>>,
     ranked |-> [q \in MainQueries |->
                    CASE q = QueryAb -> <<1, 3, 2>>
                      [] q = QueryBa -> <<2, 1>>
                      [] q = QueryOpen -> <<3>>
                      [] OTHER -> <<>>]]

IndexB ==
    [docs |-> <<DocNoText, DocFull>>,
     ranked |-> [q \in MainQueries |->
                    CASE q = QueryAb -> <<2, 1>>
                      [] q = QueryBa -> <<1>>
                      [] q = QueryOpen -> <<2>>
                      [] OTHER -> <<>>]]

Indices == {IndexA, IndexB}

\* doc.get_first(field)
GetFirst(doc, field) == doc[field]

\* searcher.search(query, limit) with the limit dropped: every ranked hit.
TopHitsUnlimited(searcher, query, limit) ==
    LET r == searcher.ranked[query]
    IN  [p \in 1..Len(r) |-> [score |-> Len(r) - p + 1, addr |-> r[p]]]

\* searcher.search(query_parser[0], num_results).hits: the best num_results
\* hits as (score, address), scores descending.
TopHits(searcher, query, limit) ==
    LET r == searcher.ranked[query]
    IN  [p \in 1..Min(limit, Len(r)) |-> [score |-> Len(r) - p + 1, addr |-> r[p]]]

RECURSIVE Basename(_)
\* os.path.basename: what follows the last "/".
Basename(path) ==
    IF path = <<>> THEN <<>>
    ELSE IF \E i \in DOMAIN path : path[i] = "/"
         THEN Basename(Tail(path))
    ELSE path

\* x or "" for an optional string x.
OrEmpty(x) == IF x = None THEN <<>> ELSE x[1]

\* doc.get_first("title") or os.path.basename(doc.get_first("filePath") or "")
TitleOf(doc) ==
    IF OrEmpty(GetFirst(doc, "title")) # <<>>
    THEN OrEmpty(GetFirst(doc, "title"))
    ELSE Basename(OrEmpty(GetFirst(doc, "filePath")))

\* The result dictionary of one hit whose document has a text: lines 113-157.
ResultOf(hit, doc, query) ==
    LET text == GetFirst(doc, "text")[1]
        terms == HighlightTerms(query)
    IN  [score |-> hit.score,
         title |-> TitleOf(doc),
         reference |-> GetFirst(doc, "reference"),
         topics |-> GetFirst(doc, "topics"),
         file_path |-> GetFirst(doc, "filePath"),
         line_number |-> GetFirst(doc, "segment"),
         is_pdf |-> GetFirst(doc, "isPdf"),
         text |-> GetFirst(doc, "text"),
         highlights |-> Highlights(terms, MatchesOf(terms, text), text)]

----------------------------------------------------------------------------
(* Text of server.py.                                                      *)

NoResultsText ==
    <<"N", "o", " ", "r", "e", "s", "u", "l", "t", "s", " ", "f", "o", "u",
      "n", "d">>

ErrorPrefix ==
    <<"E", "r", "r", "o", "r", ":", " ">>

MissingArgumentsMsg ==
    <<"M", "i", "s", "s", "i", "n", "g", " ", "a", "r", "g", "u", "m", "e",
      "n", "t", "s">>

MissingQueryMsg ==
    <<"M", "i", "s", "s", "i", "n", "g", " ", "q", "u", "e", "r", "y", " ",
      "p", "a", "r", "a", "m", "e", "t", "e", "r">>

MissingNameMsg ==
    <<"M", "i", "s", "s", "i", "n", "g", " ", "n", "a", "m", "e", " ", "p",
      "a", "r", "a", "m", "e", "t", "e", "r">>

UnknownToolPrefix ==
    <<"U", "n", "k", "n", "o", "w", "n", " ", "t", "o", "o", "l", ":", " ">>

TextLabel ==
    <<"T", "e", "x", "t", ":", " ">>

ReferenceLabel ==
    <<"\n", "R", "e", "f", "e", "r", "e", "n", "c", "e", ":", " ">>

BlockSeparator ==
    <<"\n", "\n">>

NoneStr ==
    <<"N", "o", "n", "e">>

FullTextSearchName ==
    <<"f", "u", "l", "l", "_", "t", "e", "x", "t", "_", "s", "e", "a", "r",
      "c", "h">>

HelloName ==
    <<"h", "e", "l", "l", "o">>

BogusName ==
    <<"b", "o", "g", "u", "s">>

Dan ==
    <<"D", "a", "n">>

GreetingPrefix ==
    <<"ש", "ל", "ו", "ם", ",", " ">>

GreetingSuffix ==
    <<"!", " ", "T", "h", "i", "s", " ", "i", "s", " ", "a", " ", "t", "e",
      "s", "t", " ", "m", "e", "s", "s", "a", "g", "e", " ", "f", "r", "o",
      "m", " ", "t", "h", "e", " ", "J", "e", "w", "i", "s", "h", " ", "L",
      "i", "b", "r", "a", "r", "y", " ", "s", "e", "r", "v", "e", "r", ".">>

IndexErrorMsg ==
    <<"i", "n", "d", "e", "x", " ", "e", "r", "r", "o", "r">>

TypeErrorMsg ==
    <<"e", "x", "p", "e", "c", "t", "e", "d", " ", "s", "t", "r", "i", "n",
      "g", " ", "o", "r", " ", "b", "y", "t", "e", "s", "-", "l", "i", "k",
      "e", " ", "o", "b", "j", "e", "c", "t">>

\* types.TextContent(type="text", text=...)
TextContent(text) == [type |-> "text", text |-> text]

\* str(x) inside an f-string, for an optional string.
Str(x) == IF x = None THEN NoneStr ELSE x[1]

RECURSIVE Join(_, _)
\* sep.join(parts)
Join(sep, parts) ==
    IF parts = <<>> THEN <<>>
    ELSE IF Len(parts) = 1 THEN parts[1]
    ELSE parts[1] \o sep \o Join(sep, Tail(parts))

----------------------------------------------------------------------------
(* Tool arguments: None, or a mapping over the keys "query" and "name".    *)

Arguments(keys, query, name) ==
    [isNone |-> FALSE, keys |-> keys, query |-> query, name |-> name]

NoArguments == [isNone |-> TRUE, keys |-> {}, query |-> <<>>, name |-> <<>>]
EmptyArguments == Arguments({}, <<>>, <<>>)

\* arguments.get(key)
ArgGet(args, key) == IF key \in args.keys THEN Some(args[key]) ELSE None

\* "not arguments" read as "arguments is None".
ArgumentsMissingNoneOnly(args) == args.isNone

\* not arguments: None and the empty mapping are both falsy.
ArgumentsMissing(args) == args.isNone \/ args.keys = {}

\* not value, for an optional string: None and "" are both falsy.
Falsy(value) == value = None \/ value = Some(<<>>)

ToolNames == {FullTextSearchName, HelloName, BogusName}

ToolArguments ==
    {NoArguments, EmptyArguments, Arguments({"query"}, <<>>, <<>>),
     Arguments({"name"}, <<>>, Dan), Arguments({"name"}, <<>>, <<>>)}
        \cup {Arguments({"query"}, q, <<>>) : q \in MainQueries}

\* The message of the ValueError handle_call_tool raises before it awaits
\* anything, None when it raises none: lines 90-97, 136-140, 153-154.
ToolValueError(name, args) ==
    IF ArgumentsMissing(args) THEN Some(MissingArgumentsMsg)
    ELSE IF name = FullTextSearchName
         THEN (IF Falsy(ArgGet(args, "query")) THEN Some(MissingQueryMsg) ELSE None)
    ELSE IF name = HelloName
         THEN (IF Falsy(ArgGet(args, "name")) THEN Some(MissingNameMsg) ELSE None)
    ELSE Some(UnknownToolPrefix \o name)

\* The response without the "No results found" branch.
FormatResponseNoSentinel(results) ==
    <<TextContent(Join(BlockSeparator,
        [n \in DOMAIN results |->
            TextLabel \o Str(results[n].text)
                \o ReferenceLabel \o Str(results[n].reference)]))>>

\* The response to a search that returned results: lines 106-128.
FormatResponse(results) ==
    IF results = <<>>
    THEN <<TextContent(NoResultsText)>>
    ELSE <<TextContent(Join(BlockSeparator,
            [n \in DOMAIN results |->
                TextLabel \o Str(results[n].text)
                    \o ReferenceLabel \o Str(results[n].reference)]))>>

\* The hello tool's greeting: lines 142-145.
Greeting(name) == <<TextContent(GreetingPrefix \o name \o GreetingSuffix)>>

----------------------------------------------------------------------------
(* One invocation: a direct call of TantivySearchAgent.search, or a call   *)
(* of handle_call_tool, which may call search.  pc is the await the        *)
(* coroutine is suspended at.                                              *)

IdleTask ==
    [kind |-> "none", pc |-> "idle", name |-> <<>>, args |-> NoArguments,
     query |-> <<>>, limit |-> 0,
     searcher |-> None,     \* the searcher of line 93, a view of the index
     parsed |-> None,       \* query_parser[0]
     hits |-> <<>>,         \* search_results
     n |-> 0,               \* the hit the for loop is at
     results |-> <<>>,      \* the results list being built
     error |-> "none",      \* the exception an except clause of search caught
     searchOut |-> "pending", returned |-> <<>>,
     exc |-> None,          \* the exception an except clause of the tool caught
     toolOut |-> "pending", response |-> <<>>]

\* An except clause of handle_call_tool that re-raises.
EscapesBoundary(t, msg) ==
    [t EXCEPT !.pc = "done", !.exc = Some(msg), !.toolOut = "raised"]

\* An except clause of handle_call_tool: lines 129-134, 146-151, 156-161.
CaughtAtBoundary(t, msg) ==
    [t EXCEPT !.pc = "done", !.exc = Some(msg), !.toolOut = "returned",
              !.response = <<TextContent(ErrorPrefix \o msg)>>]

\* search returns value; a calling handle_call_tool goes on to line 104 and
\* returns the formatted response without awaiting again.
SearchReturns(t, value) ==
    LET s == [t EXCEPT !.pc = "done", !.searchOut = "returned",
                       !.returned = value]
    IN  IF t.kind = "tool"
        THEN [s EXCEPT !.toolOut = "returned", !.response = FormatResponse(value)]
        ELSE s

\* search raises; a calling handle_call_tool catches it at line 129.
SearchRaises(t, msg) ==
    LET s == [t EXCEPT !.pc = "done", !.searchOut = "raised"]
    IN  IF t.kind = "tool" THEN CaughtAtBoundary(s, msg) ELSE s

\* The message of the exception recorded as err.
MessageOf(err) == IF err = "TypeError" THEN TypeErrorMsg ELSE IndexErrorMsg

\* An except clause of search that re-raises.
Propagates(t, err) == SearchRaises([t EXCEPT !.error = err], MessageOf(err))

\* except Exception as query_error: return []  (lines 104-106)
AbsorbedInner(t, err) == SearchReturns([t EXCEPT !.error = err], <<>>)

\* except Exception as e: return []  (lines 163-165)
AbsorbedOuter(t, err) == SearchReturns([t EXCEPT !.error = err], <<>>)

\* results shared by every invocation (kept on the agent).
AppendResultShared(tasks, i, r) ==
    [j \in DOMAIN tasks |-> [tasks[j] EXCEPT !.results = Append(@, r)]]

\* results.append(result): line 158, on the list local to invocation i.
AppendResult(tasks, i, r) == [tasks EXCEPT ![i].results = Append(@, r)]

\* A failed fetch that skips the hit and goes on with the next.
FetchFailedSkipsHit(t) ==
    LET s == [t EXCEPT !.error = "doc"]
    IN  IF t.n = Len(t.hits) THEN SearchReturns(s, s.results)
        ELSE [s EXCEPT !.n = @ + 1]

\* searcher.doc raises at line 112: caught at line 163.
FetchFailed(t) == AbsorbedOuter(t, "doc")

----------------------------------------------------------------------------
(* Actions.                                                                *)

\* A caller starts search(q, num_results=k); it suspends at line 93.
CallSearch(tasks, queries, limits) ==
    \E i \in tasks, q \in queries, k \in limits :
        /\ inv[i].pc = "idle"
        /\ inv' = [inv EXCEPT ![i] =
                [IdleTask EXCEPT !.kind = "search", !.pc = "searcher",
                                 !.query = q, !.limit = k]]
        /\ UNCHANGED <<index, hl>>

\* handle_call_tool(name, arguments) up to its first await (line 103), or
\* to its return when it never awaits.
CallTool(tasks, names, arguments) ==
    \E i \in tasks, name \in names, args \in arguments :
        /\ inv[i].pc = "idle"
        /\ LET t == [IdleTask EXCEPT !.kind = "tool", !.name = name,
                                     !.args = args]
               err == ToolValueError(name, args)
           IN  inv' = [inv EXCEPT ![i] =
                   IF err # None THEN CaughtAtBoundary(t, err[1])
                   ELSE IF name = HelloName
                        THEN [t EXCEPT !.pc = "done", !.toolOut = "returned",
                                       !.response = Greeting(args.name)]
                   ELSE [t EXCEPT !.pc = "searcher", !.query = args.query,
                                  !.limit = ToolLimit]]
        /\ UNCHANGED <<index, hl>>

\* await self._run_in_executor(self.index.searcher) completes: line 93.
GetSearcher ==
    \E i \in Tasks :
        /\ inv[i].pc = "searcher"
        /\ inv' = [inv EXCEPT ![i].pc = "parse", ![i].searcher = Some(index)]
        /\ UNCHANGED <<index, hl>>

\* index.searcher raises.
GetSearcherFails ==
    \E i \in Tasks :
        /\ inv[i].pc = "searcher"
        /\ inv' = [inv EXCEPT ![i] = AbsorbedOuter(@, "searcher")]
        /\ UNCHANGED <<index, hl>>

\* await ... parse_query_lenient(query) completes: line 98.
ParseLenient ==
    \E i \in Tasks :
        /\ inv[i].pc = "parse"
        /\ inv' = [inv EXCEPT ![i].pc = "execute",
                              ![i].parsed = Some(inv[i].query)]
        /\ UNCHANGED <<index, hl>>

\* parse_query_lenient raises.
ParseLenientFails ==
    \E i \in Tasks :
        /\ inv[i].pc = "parse"
        /\ inv' = [inv EXCEPT ![i] = AbsorbedInner(@, "parse")]
        /\ UNCHANGED <<index, hl>>

\* await ... searcher.search(query_parser[0], num_results) completes:
\* lines 99-102; with no hit the loop is skipped and search returns [].
Execute ==
    \E i \in Tasks :
        /\ inv[i].pc = "execute"
        /\ LET t == inv[i]
               hits == TopHits(t.searcher[1], t.parsed[1], t.limit)
           IN  inv' = [inv EXCEPT ![i] =
                   IF hits = <<>> THEN SearchReturns(t, t.results)
                   ELSE [t EXCEPT !.pc = "fetch", !.hits = hits, !.n = 1]]
        /\ UNCHANGED <<index, hl>>

\* searcher.search raises.
ExecuteFails ==
    \E i \in Tasks :
        /\ inv[i].pc = "execute"
        /\ inv' = [inv EXCEPT ![i] = AbsorbedInner(@, "execute")]
        /\ UNCHANGED <<index, hl>>

\* await ... searcher.doc(doc_address) completes and the loop body runs:
\* lines 112-158.  A document without a text makes re.finditer or len raise
\* TypeError.  After the last hit search returns results.
FetchDoc ==
    \E i \in Tasks :
        /\ inv[i].pc = "fetch"
        /\ LET t == inv[i]
               hit == t.hits[t.n]
               doc == t.searcher[1].docs[hit.addr]
           IN  IF GetFirst(doc, "text") = None
               THEN inv' = [inv EXCEPT ![i] = AbsorbedOuter(t, "TypeError")]
               ELSE LET appended == AppendResult(inv, i, ResultOf(hit, doc, t.query))
                        s == appended[i]
                    IN  inv' = [appended EXCEPT ![i] =
                            IF s.n = Len(s.hits) THEN SearchReturns(s, s.results)
                            ELSE [s EXCEPT !.n = @ + 1]]
        /\ UNCHANGED <<index, hl>>

\* searcher.doc raises.
FetchDocFails ==
    \E i \in Tasks :
        /\ inv[i].pc = "fetch"
        /\ inv' = [inv EXCEPT ![i] = FetchFailed(@)]
        /\ UNCHANGED <<index, hl>>

----------------------------------------------------------------------------
(* Specifications.                                                         *)

\* The server after start-up: the index open, no invocation in flight.
Init ==
    /\ index \in Indices
    /\ inv = [i \in Tasks |-> IdleTask]
    /\ hl = HLOff

\* The awaits of an invocation in flight completing or raising.
Step ==
    \/ GetSearcher
    \/ GetSearcherFails
    \/ ParseLenient
    \/ ParseLenientFails
    \/ Execute
    \/ ExecuteFails
    \/ FetchDoc
    \/ FetchDocFails

\* One invocation, with every input: any query and limit, any tool name and
\* arguments.
Next ==
    \/ CallSearch({1}, MainQueries, 0..MaxLimit)
    \/ CallTool({1}, ToolNames, ToolArguments)
    \/ Step

Spec == Init /\ [][Next]_vars

\* NumTasks invocations in flight at once, interleaved at their awaits.
NextConcurrent ==
    \/ CallSearch(Tasks, {QueryAb, QueryBa}, {1, MaxLimit})
    \/ CallTool(Tasks, {FullTextSearchName}, {Arguments({"query"}, QueryAb, <<>>)})
    \/ Step

SpecConcurrent == Init /\ [][NextConcurrent]_vars

\* The highlight extractor given a raw query and a document text.
InitHL ==
    /\ index = IndexA
    /\ inv = [i \in Tasks |-> IdleTask]
    /\ hl \in {HLInput(q, t) : q \in HLQueries, t \in HLTexts}

NextHL == ExtractHighlights

SpecHL == InitHL /\ [][NextHL]_vars

----------------------------------------------------------------------------
(* Properties.                                                             *)

\* Invocations in which search has returned or raised.
SearchDone == {i \in Tasks : inv[i].searchOut # "pending"}

\* Invocations of handle_call_tool that have ended.
ToolDone == {i \in Tasks : inv[i].kind = "tool" /\ inv[i].pc = "done"}

\* The text of the single block of a tool response.
ResponseText(i) == inv[i].response[1].text

(* C1: search never raises to its caller: whatever the raw query, and      *)
(* whenever obtaining the searcher, the lenient parse, the execution or a  *)
(* fetch fails, search returns, and what it returns is the empty sequence. *)
C1_SearchNeverRaises ==
    \A i \in SearchDone :
        /\ inv[i].searchOut = "returned"
        /\ inv[i].error # "none" => inv[i].returned = <<>>

\* search has absorbed a parse failure on the unbalanced query.
C1_Witness ==
    \E i \in SearchDone :
        /\ inv[i].query = QueryOpen
        /\ inv[i].error = "parse"
        /\ inv[i].searchOut = "returned"
        /\ inv[i].returned = <<>>

(* C2 as stated: full_text_search with the empty mapping {} yields the     *)
(* text "Error: Missing query parameter".                                  *)
C2_EmptyMappingMissingQuery ==
    \A i \in ToolDone :
        (inv[i].name = FullTextSearchName /\ inv[i].args = EmptyArguments)
            => inv[i].response = <<TextContent(ErrorPrefix \o MissingQueryMsg)>>

(* C2 amended: full_text_search with the empty mapping {} yields "Error:   *)
(* Missing arguments"; with a non-empty mapping that has no query key, or  *)
(* an empty query, it yields "Error: Missing query parameter".             *)
C2_EmptyMappingMissingArguments ==
    \A i \in ToolDone :
        inv[i].name = FullTextSearchName =>
            /\ inv[i].args = EmptyArguments
                  => inv[i].response = <<TextContent(ErrorPrefix \o MissingArgumentsMsg)>>
            /\ (/\ ~inv[i].args.isNone
                /\ inv[i].args.keys # {}
                /\ ("query" \notin inv[i].args.keys \/ inv[i].args.query = <<>>))
                  => inv[i].response = <<TextContent(ErrorPrefix \o MissingQueryMsg)>>

\* full_text_search has answered the empty mapping.
C2_Witness ==
    \E i \in ToolDone :
        /\ inv[i].name = FullTextSearchName
        /\ inv[i].args = EmptyArguments
        /\ inv[i].toolOut = "returned"

\* Whether handling (name, args) raises inside handle_call_tool: no
\* arguments, a required key missing or empty, or an unknown tool.
C3_Raises(name, args) ==
    \/ args.isNone
    \/ args.keys = {}
    \/ name = FullTextSearchName /\ ("query" \notin args.keys \/ args.query = <<>>)
    \/ name = HelloName /\ ("name" \notin args.keys \/ args.name = <<>>)
    \/ name \notin {FullTextSearchName, HelloName}

(* C3: handle_call_tool never lets an exception escape: for every tool     *)
(* name and every arguments value it returns exactly one text block, and   *)
(* when an exception was raised in it the text is "Error: " followed by    *)
(* the exception's message.                                                *)
C3_ToolNeverRaises ==
    \A i \in Tasks :
        /\ inv[i].toolOut # "raised"
        /\ i \in ToolDone =>
              /\ inv[i].toolOut = "returned"
              /\ Len(inv[i].response) = 1
              /\ inv[i].response[1].type = "text"
              /\ (inv[i].exc # None) = C3_Raises(inv[i].name, inv[i].args)
              /\ inv[i].exc # None
                    => ResponseText(i) = ErrorPrefix \o inv[i].exc[1]
              /\ inv[i].name = BogusName /\ ~inv[i].args.isNone /\ inv[i].args.keys # {}
                    => ResponseText(i) = ErrorPrefix \o UnknownToolPrefix \o BogusName

\* An unrecognized tool name with well-formed arguments has been answered.
C3_Witness ==
    \E i \in ToolDone :
        /\ inv[i].name = BogusName
        /\ inv[i].args = Arguments({"query"}, QueryAb, <<>>)
        /\ inv[i].response =
              <<TextContent(ErrorPrefix \o UnknownToolPrefix \o BogusName)>>

\* "Text: ...\nReference: ..." for one result.
C4_Block(r) == TextLabel \o Str(r.text) \o ReferenceLabel \o Str(r.reference)

(* C4: for a non-empty query, full_text_search answers a search with zero  *)
(* results by one text block reading exactly "No results found", and a     *)
(* search with results by the "Text: ...\nReference: ..." blocks joined    *)
(* by blank lines, never by that sentinel.                                 *)
C4_NoResultsSentinel ==
    \A i \in ToolDone :
        (inv[i].name = FullTextSearchName /\ inv[i].searchOut = "returned") =>
            /\ Len(inv[i].response) = 1
            /\ inv[i].returned = <<>> => ResponseText(i) = NoResultsText
            /\ inv[i].returned # <<>> =>
                  /\ ResponseText(i) # NoResultsText
                  /\ ResponseText(i) =
                        Join(BlockSeparator,
                             [n \in DOMAIN inv[i].returned |->
                                 C4_Block(inv[i].returned[n])])

\* A query no document matches has been answered with the sentinel.
C4_Witness ==
    \E i \in ToolDone :
        /\ inv[i].name = FullTextSearchName
        /\ inv[i].query = QueryZz
        /\ inv[i].error = "none"
        /\ inv[i].returned = <<>>
        /\ ResponseText(i) = NoResultsText

(* C5: search(query, num_results=k) returns at most k results, in the      *)
(* order of the index's hits (score descending), on every path.            *)
C5_AtMostLimitInOrder ==
    \A i \in SearchDone :
        LET r == inv[i].returned
            ranked == index.ranked[inv[i].query]
        IN  /\ Len(r) <= inv[i].limit
            /\ Len(r) <= Len(ranked)
            /\ \A n \in DOMAIN r :
                  /\ r[n].text = index.docs[ranked[n]].text
                  /\ r[n].reference = index.docs[ranked[n]].reference
                  /\ n > 1 => r[n - 1].score > r[n].score

\* search has returned exactly num_results results although more documents
\* match.
C5_Witness ==
    \E i \in SearchDone :
        /\ inv[i].limit = 2
        /\ Len(inv[i].returned) = 2
        /\ Len(index.ranked[inv[i].query]) > 2

(* C8: for every hit whose document lacks an optional field, search still  *)
(* returns a result for that hit, with None for the missing field: unless  *)
(* an index operation failed there is one result per hit, holding the      *)
(* document's fields.                                                      *)
C8_MissingFieldKeepsResult ==
    \A i \in SearchDone :
        inv[i].error \notin {"searcher", "parse", "execute", "doc"} =>
            LET hits == TopHits(index, inv[i].query, inv[i].limit)
                r == inv[i].returned
            IN  /\ Len(r) = Len(hits)
                /\ \A n \in DOMAIN r :
                      LET doc == index.docs[hits[n].addr]
                      IN  /\ r[n].text = doc.text
                          /\ r[n].reference = doc.reference
                          /\ r[n].topics = doc.topics
                          /\ r[n].file_path = doc.filePath
                          /\ r[n].line_number = doc.segment
                          /\ r[n].is_pdf = doc.isPdf

(* C9 as stated: a failure while fetching the document of one hit does not *)
(* abort the batch: the results of the other hits are still returned.      *)
C9_FetchFailureKeepsOthers ==
    \A i \in SearchDone :
        inv[i].error = "doc" => Len(inv[i].returned) = Len(inv[i].hits) - 1

(* C9 amended: a failure while fetching the document of one hit aborts the *)
(* whole batch: search absorbs it and returns the empty sequence, dropping *)
(* the results already assembled for earlier hits.                         *)
C9_FetchFailureAbortsBatch ==
    \A i \in SearchDone :
        inv[i].error = "doc" =>
            /\ inv[i].searchOut = "returned"
            /\ inv[i].returned = <<>>

\* The fetch of the second hit failed after the first result was assembled.
C9_Witness ==
    \E i \in SearchDone :
        /\ inv[i].error = "doc"
        /\ inv[i].n = 2
        /\ Len(inv[i].results) = 1
        /\ inv[i].returned = <<>>

\* The results search(query, num_results=limit) on index ix has assembled
\* after count hits when it runs alone.
C10_Alone(ix, query, limit, count) ==
    LET hits == TopHits(ix, query, limit)
    IN  [n \in 1..count |-> ResultOf(hits[n], ix.docs[hits[n].addr], query)]

(* C10: concurrent searches are independent: under every interleaving at   *)
(* the awaits each invocation holds and returns exactly what it would      *)
(* running alone, and the index every invocation reads is the one opened   *)
(* at start-up.                                                            *)
C10_Independent ==
    \A i \in Tasks :
        LET t == inv[i]
        IN  /\ t.searcher \in {None, Some(index)}
            /\ t.pc = "fetch" =>
                  /\ t.hits = TopHits(index, t.query, t.limit)
                  /\ t.results = C10_Alone(index, t.query, t.limit, t.n - 1)
            /\ t.searchOut # "pending" =>
                  /\ t.searchOut = "returned"
                  /\ t.error = "TypeError" =>
                        \E n \in DOMAIN t.hits :
                            index.docs[t.hits[n].addr].text = None
                  /\ t.returned =
                        IF t.error # "none" THEN <<>>
                        ELSE C10_Alone(index, t.query, t.limit,
                                 Len(TopHits(index, t.query, t.limit)))

\* One search is inside its loop while another, on a different query, has
\* returned results.
C10_Witness ==
    \E i, j \in Tasks :
        /\ inv[i].pc = "fetch"
        /\ inv[i].n = 2
        /\ inv[j].searchOut = "returned"
        /\ inv[j].returned # <<>>
        /\ inv[j].query # inv[i].query

\* A match of the extractor's run, as the 0-based window the specification
\* gives: [max(0, s - 50), min(L, e + 50)).
C6_WindowStart(m) == IF m.start - ContextChars > 0 THEN m.start - ContextChars ELSE 0
C6_WindowEnd(m, L) == IF m.end + ContextChars < L THEN m.end + ContextChars ELSE L

(* C6: the highlight of a match at [s, e) in a text of length L is         *)
(* text[max(0, s-50) : min(L, e+50)], with "..." in front iff the window   *)
(* starts after 0 and "..." behind iff it ends before L; the window lies   *)
(* in [0, L]; there is one highlight per match.                            *)
C6_HighlightWindow ==
    (hl.pc = "done" /\ hl.matches # <<>>) =>
        /\ Len(hl.highlights) = Len(hl.matches)
        /\ \A k \in DOMAIN hl.matches :
              LET L == Len(hl.text)
                  lo == C6_WindowStart(hl.matches[k])
                  hi == C6_WindowEnd(hl.matches[k], L)
              IN  /\ 0 <= lo /\ lo <= hi /\ hi <= L
                  /\ hl.highlights[k] =
                        (IF lo > 0 THEN Ellipsis ELSE <<>>)
                            \o [p \in 1..(hi - lo) |-> hl.text[lo + p]]
                            \o (IF hi < L THEN Ellipsis ELSE <<>>)

\* A match whose window is cut on both sides.
C6_Witness ==
    /\ hl.pc = "done"
    /\ \E k \in DOMAIN hl.matches :
          /\ hl.matches[k].start > ContextChars
          /\ hl.matches[k].end + ContextChars < Len(hl.text)
          /\ Len(hl.highlights[k]) = 2 * ContextChars + 6 +
                (hl.matches[k].end - hl.matches[k].start)

\* The two example queries of the specification.
C7_AandB == <<"a", " ", "A", "N", "D", " ", "b">>
C7_AndOrPlus == <<"A", "N", "D", " ", "O", "R", " ", "+">>

(* C7: when stripping the syntax and dropping the terms of length <= 1     *)
(* leaves no term (as for "a AND b" and "AND OR +"), or the terms match    *)
(* nowhere in the text, the highlights are one entry: the first 100        *)
(* characters followed by "..." when the text is longer, else the text.    *)
C7_Fallback ==
    hl.pc = "done" =>
        /\ hl.query \in {C7_AandB, C7_AndOrPlus} => hl.terms = <<>>
        /\ \A k \in DOMAIN hl.terms : Len(hl.terms[k]) > 1
        /\ (hl.terms = <<>> \/ hl.matches = <<>>) =>
              /\ Len(hl.highlights) = 1
              /\ IF Len(hl.text) > FallbackChars
                 THEN hl.highlights[1] =
                        [p \in 1..FallbackChars |-> hl.text[p]] \o Ellipsis
                 ELSE hl.highlights[1] = hl.text

\* "a AND b" on a text longer than 100 characters that holds an "a".
C7_Witness ==
    /\ hl.pc = "done"
    /\ hl.query = C7_AandB
    /\ Len(hl.text) > FallbackChars
    /\ \E p \in DOMAIN hl.text : hl.text[p] = "a"
    /\ Len(hl.highlights) = 1
    /\ Len(hl.highlights[1]) = FallbackChars + 3

====
